---- MODULE Spec2Model ----
(***************************************************************************)
(* Model of lit_data_layers.sqldb.SqlDataLayer: the five tables of         *)
(* models.py (users, threads, steps, elements, feedback) with the          *)
(* constraints the schema declares, and one action per handler of          *)
(* SqlDataLayer.  A handler that raises leaves the tables as they were     *)
(* (its session is closed without a commit) and records the error.         *)
(***************************************************************************)
EXTENDS Integers, Sequences, FiniteSets, TLC

VARIABLES users, threads, steps, elements, feedback, now, ret, sess, pages

vars == <<users, threads, steps, elements, feedback, now, ret, sess, pages>>

tables == <<users, threads, steps, elements, feedback>>

(***************************************************************************)
(* Bounds of the model.                                                    *)
(***************************************************************************)
MaxThreads == 2
MaxSteps == 2
MaxElements == 1
MaxFeedback == 1
MaxClock == 2
MaxProcs == 2
MaxListed == 10
MaxFirst == 4

(***************************************************************************)
(* Values.  Ids are integers (0 is Python's None for an id), text fields   *)
(* are strings (NoneText is None), instants are integers (NoInstant is     *)
(* None).  An ISO-8601 string is a record of its wall-clock reading and    *)
(* its zone suffix; a datetime is the instant it denotes.                  *)
(*                                                                         *)
(* A record stands for a row or a dict, whose fields have no order; every  *)
(* record below lists its fields in the order TLC keeps them in (the order *)
(* in which the names first occur in this module), not in the order of the *)
(* column or key declarations of the source.                               *)
(***************************************************************************)
None == 0
NoneText == "None"
NoInstant == 0
NoneIso == [wall |-> 0, off |-> "None"]

ThreadIds == 1..MaxThreads
StepIds == 1..MaxSteps
ElementIds == 1..MaxElements
Instants == 1..MaxClock
Procs == 1..MaxProcs

\* str.replace("Z", "+00:00")
ReplaceZ(s) == IF s.off = "Z" THEN [s EXCEPT !.off = "+00:00"] ELSE s

\* datetime.fromisoformat of a string with a "+00:00" offset
fromisoformat(s) == s.wall

date_serialize(date) ==
    IF date = NoInstant THEN NoneIso ELSE [wall |-> date, off |-> "+00:00"]

\* Python's str() of a feedback value
Str(v) == CASE v = -1 -> "-1" [] v = 0 -> "0" [] v = 1 -> "1"

\* What the last call did: it raised err, or returned val (<<>> is None)
Raise(op, args, err) == [op |-> op, args |-> args, err |-> err, val |-> <<>>]

\* f"Step with ID {id} not found"
StepNotFound(id) == "Step with ID " \o ToString(id) \o " not found"

Return(op, args, val) == [op |-> op, args |-> args, err |-> "", val |-> <<val>>]

ReturnNone(op, args) == [op |-> op, args |-> args, err |-> "", val |-> <<>>]

\* Query.first(): no row, or one of the rows the query matches
First(rows) == IF rows = {} THEN {{}} ELSE {{r} : r \in rows}

TheRow(one) == CHOOSE r \in one : TRUE

(***************************************************************************)
(* users                                                                   *)
(***************************************************************************)
\* uuid.uuid4(): an id no stored user has
NewUserId == Cardinality(users) + 1

\* str(datetime)
DateStr(date) == [wall |-> date, off |-> "+00:00", sep |-> " "]

PersistedUser(row, metadata) ==
    [id |-> row.id, metadata |-> metadata,
     identifier |-> row.identifier, createdAt |-> DateStr(row.createdAt)]

SelectUser(identifier) == {r \in users : r.identifier = identifier}

\* PersistedUserModel(id=..., identifier=..., createdAt=..., metadata=...):
\* the keyword is metadata, the column is metadata_, which stays NULL
NewUserRow(user) ==
    [id |-> NewUserId, identifier |-> user.identifier,
     createdAt |-> now, metadata_ |-> NoneText]

\* the rows of users after create_user's commit, `one` being what it selected
CreateUserBadRows(user, one) ==
    IF one # {}
    THEN {IF r.id = TheRow(one).id
          THEN [r EXCEPT !.metadata_ = user.metadata, !.createdAt = now] ELSE r : r \in users}
    ELSE users \cup {NewUserRow(user)}

CreateUserRows(user, one) ==
    IF one # {}
    THEN {IF r.id = TheRow(one).id
          THEN [r EXCEPT !.metadata_ = user.metadata] ELSE r : r \in users}
    ELSE users \cup {NewUserRow(user)}

CreateUserModel(user, one) ==
    IF one # {} THEN [TheRow(one) EXCEPT !.metadata_ = user.metadata]
    ELSE NewUserRow(user)

CreateUserCommit(user, one) ==
    /\ users' = CreateUserRows(user, one)
    /\ ret' = Return("create_user", user,
                     PersistedUser(CreateUserModel(user, one),
                                   CreateUserModel(user, one).metadata_))

CreateUser(user) ==
    /\ \E one \in First(SelectUser(user.identifier)) : CreateUserCommit(user, one)
    /\ UNCHANGED <<threads, steps, elements, feedback, now, sess, pages>>

\* self.get_user(identifier, no_create=True) without await: the coroutine
\* object of the call, which has not run
Coroutine(identifier) ==
    [coroutine |-> [identifier |-> identifier, no_create |-> TRUE]]

\* get_user: the row found, or create_user and the un-awaited coroutine of
\* the recursive call, or None
GetUser(identifier, no_create) ==
    /\ \E one \in First(SelectUser(identifier)) :
         IF one # {}
         THEN /\ ret' = Return("get_user", [identifier |-> identifier, no_create |-> no_create],
                               PersistedUser(TheRow(one),
                                   IF TheRow(one).metadata_ = NoneText THEN "{}"
                                   ELSE TheRow(one).metadata_))
              /\ UNCHANGED users
         ELSE IF ~no_create
         THEN /\ users' = CreateUserRows([metadata |-> "{}", identifier |-> identifier], {})
              /\ ret' = Return("get_user", [identifier |-> identifier, no_create |-> no_create],
                               Coroutine(identifier))
         ELSE /\ ret' = ReturnNone("get_user", [identifier |-> identifier, no_create |-> no_create])
              /\ UNCHANGED users
    /\ UNCHANGED <<threads, steps, elements, feedback, now, sess, pages>>

(***************************************************************************)
(* threads                                                                 *)
(***************************************************************************)
SelectThread(thread_id) == {t \in threads : t.id = thread_id}

\* ThreadModel(id=thread_id, name=name, createdAt=datetime.now(timezone.utc))
NewThreadRow(thread_id, name) ==
    [id |-> thread_id, createdAt |-> now, metadata_ |-> NoneText,
     name |-> name, user_id |-> None, tags |-> NoneText]

\* update_thread's assignments: a field is set when its argument is not None
AssignAllThreadFields(thread, name, user_id, metadata, tags) ==
    [thread EXCEPT !.name = name, !.user_id = user_id,
                   !.metadata_ = metadata, !.tags = tags]

AssignThreadFields(thread, name, user_id, metadata, tags) ==
    [thread EXCEPT !.name = IF name # NoneText THEN name ELSE @,
                   !.user_id = IF user_id # None THEN user_id ELSE @,
                   !.metadata_ = IF metadata # NoneText THEN metadata ELSE @,
                   !.tags = IF tags # NoneText THEN tags ELSE @]

\* threads.user_id -> users.id
ThreadUserKeyHolds(thread) ==
    thread.user_id = None \/ \E u \in users : u.id = thread.user_id

UpdateThread(thread_id, name, user_id, metadata, tags) ==
    LET args == [metadata |-> metadata, thread_id |-> thread_id, name |-> name,
                 user_id |-> user_id, tags |-> tags] IN
    /\ \E one \in First(SelectThread(thread_id)) :
         LET thread == AssignThreadFields(
                           IF one = {} THEN NewThreadRow(thread_id, name) ELSE TheRow(one),
                           name, user_id, metadata, tags) IN
         IF ThreadUserKeyHolds(thread)
         THEN /\ threads' = (threads \ one) \cup {thread}
              /\ ret' = ReturnNone("update_thread", args)
         ELSE /\ ret' = Raise("update_thread", args, "IntegrityError")
              /\ UNCHANGED threads
    /\ UNCHANGED <<users, steps, elements, feedback, now, sess, pages>>

(***************************************************************************)
(* steps                                                                   *)
(***************************************************************************)
SelectStep(step_id) == {s \in steps : s.id = step_id}

\* steps.thread_id -> threads.id
StepThreadKeyAlways(thread_id) == TRUE

StepThreadKeyHolds(thread_id) == \E t \in threads : t.id = thread_id

NewStepRow(step_dict) ==
    [id |-> step_dict.id, metadata_ |-> step_dict.metadata,
     thread_id |-> step_dict.threadId, name |-> step_dict.name,
     parent_id |-> step_dict.parentId, type |-> step_dict.type,
     input |-> step_dict.input, output |-> step_dict.output,
     created_at |-> now, start_time |-> now, end_time |-> NoInstant]

\* the StepDict create_step and update_step return
StepDictOf(step) ==
    [id |-> step.id, metadata |-> step.metadata_,
     createdAt |-> date_serialize(step.created_at),
     name |-> step.name, threadId |-> step.thread_id, type |-> step.type,
     input |-> step.input, output |-> step.output,
     start |-> date_serialize(step.start_time),
     end |-> date_serialize(step.end_time)]

CreateStep(step_dict) ==
    /\ IF SelectStep(step_dict.id) = {} /\ StepThreadKeyHolds(step_dict.threadId)
       THEN /\ steps' = steps \cup {NewStepRow(step_dict)}
            /\ ret' = Return("create_step", step_dict, StepDictOf(NewStepRow(step_dict)))
       ELSE /\ ret' = Raise("create_step", step_dict, "IntegrityError")
            /\ UNCHANGED steps
    /\ UNCHANGED <<users, threads, elements, feedback, now, sess, pages>>

\* datetime.fromisoformat(x.replace("Z", "+00:00")) if x else old
AlwaysParsed(iso, old) == fromisoformat(ReplaceZ(iso))

ParsedOrKept(iso, old) ==
    IF iso # NoneIso THEN fromisoformat(ReplaceZ(iso)) ELSE old

UpdatedStepRow(step, step_dict) ==
    [step EXCEPT !.name = step_dict.name, !.type = step_dict.type,
                 !.input = step_dict.input, !.output = step_dict.output,
                 !.metadata_ = step_dict.metadata,
                 !.created_at = ParsedOrKept(step_dict.createdAt, @),
                 !.start_time = ParsedOrKept(step_dict.start, @),
                 !.end_time = ParsedOrKept(step_dict.end, @)]

\* update_step of an id no step has: create the step instead of raising
UpdateStepMissingUpsert(step_dict) ==
    /\ steps' = steps \cup {NewStepRow(step_dict)}
    /\ ret' = Raise("update_step", step_dict, StepNotFound(step_dict.id))

\* raise ValueError(f"Step with ID {step_dict['id']} not found")
UpdateStepMissing(step_dict) ==
    /\ ret' = Raise("update_step", step_dict, StepNotFound(step_dict.id))
    /\ UNCHANGED steps

UpdateStep(step_dict) ==
    /\ \E one \in First(SelectStep(step_dict.id)) :
         IF one # {}
         THEN /\ steps' = (steps \ one) \cup {UpdatedStepRow(TheRow(one), step_dict)}
              /\ ret' = Return("update_step", step_dict,
                               StepDictOf(UpdatedStepRow(TheRow(one), step_dict)))
         ELSE UpdateStepMissing(step_dict)
    /\ UNCHANGED <<users, threads, elements, feedback, now, sess, pages>>

\* StepModel.feedback has no delete cascade: the flush sets for_id of the
\* step's feedback rows to NULL, which the column (nullable=False) refuses
StepFeedback(step_id) == {f \in feedback : f.for_id = step_id}

DeleteStep(step_id) ==
    /\ \E one \in First(SelectStep(step_id)) :
         IF one = {}
         THEN /\ ret' = Return("delete_step", step_id, FALSE)
              /\ UNCHANGED steps
         ELSE IF StepFeedback(step_id) # {}
         THEN /\ ret' = Raise("delete_step", step_id, "IntegrityError")
              /\ UNCHANGED steps
         ELSE /\ steps' = steps \ one
              /\ ret' = Return("delete_step", step_id, TRUE)
    /\ UNCHANGED <<users, threads, elements, feedback, now, sess, pages>>

(***************************************************************************)
(* elements                                                                *)
(***************************************************************************)
SelectElement(element_id) == {e \in elements : e.id = element_id}

NewElementRow(d) ==
    [id |-> d.id, thread_id |-> d.threadId, name |-> d.name,
     type |-> d.type, for_id |-> d.forId, chainlit_key |-> d.chainlitKey,
     url |-> d.url, object_key |-> d.objectKey, display |-> d.display,
     size |-> d.size, language |-> d.language, mime |-> d.mime,
     page |-> d.page]

ElementDictOf(e) ==
    [id |-> e.id, name |-> e.name, threadId |-> e.thread_id,
     type |-> e.type, forId |-> e.for_id, chainlitKey |-> e.chainlit_key,
     url |-> e.url, objectKey |-> e.object_key, display |-> e.display,
     size |-> e.size, language |-> e.language, mime |-> e.mime,
     page |-> e.page]

\* elements.thread_id -> threads.id
ElementThreadKeyHolds(thread_id) == \E t \in threads : t.id = thread_id

CreateElement(element_dict) ==
    /\ IF SelectElement(element_dict.id) = {}
          /\ ElementThreadKeyHolds(element_dict.threadId)
       THEN /\ elements' = elements \cup {NewElementRow(element_dict)}
            /\ ret' = Return("create_element", element_dict,
                             ElementDictOf(NewElementRow(element_dict)))
       ELSE /\ ret' = Raise("create_element", element_dict, "IntegrityError")
            /\ UNCHANGED elements
    /\ UNCHANGED <<users, threads, steps, feedback, now, sess, pages>>

GetElement(thread_id, element_id) ==
    /\ \E one \in First({e \in elements : e.thread_id = thread_id /\ e.id = element_id}) :
         ret' = IF one # {}
                THEN Return("get_element", <<thread_id, element_id>>,
                            ElementDictOf(TheRow(one)))
                ELSE ReturnNone("get_element", <<thread_id, element_id>>)
    /\ UNCHANGED <<tables, now, sess, pages>>

DeleteElement(element_id) ==
    /\ \E one \in First(SelectElement(element_id)) :
         /\ elements' = elements \ one
         /\ ret' = Return("delete_element", element_id, one # {})
    /\ UNCHANGED <<users, threads, steps, feedback, now, sess, pages>>

(***************************************************************************)
(* feedback                                                                *)
(***************************************************************************)
\* the integer primary key the store assigns on insert
NewFeedbackId == Cardinality(feedback) + 1

\* feedback.for_id -> steps.id
FeedbackStepKeyHolds(for_id) == \E s \in steps : s.id = for_id

NewFeedbackRow(f) ==
    [id |-> NewFeedbackId, for_id |-> f.forId, value |-> Str(f.value),
     strategy |-> "BINARY", comment |-> f.comment]

\* str(new_feedback.id)
FeedbackIdStr(id) == ToString(id)

\* update(FeedbackModel).where(FeedbackModel.id == feedback.id)
MatchesFeedbackId(r, id) == FeedbackIdStr(r.id) = id

\* .values(comment=feedback.comment, value=str(feedback.value))
UpdatedFeedbackComment(r, f) == [r EXCEPT !.comment = f.comment]

UpdatedFeedbackRow(r, f) ==
    [r EXCEPT !.comment = f.comment, !.value = Str(f.value)]

UpsertFeedback(f) ==
    /\ IF f.id # NoneText
       THEN /\ feedback' = {IF MatchesFeedbackId(r, f.id)
                            THEN UpdatedFeedbackRow(r, f)
                            ELSE r : r \in feedback}
            /\ ret' = Return("upsert_feedback", f, f.id)
       ELSE IF FeedbackStepKeyHolds(f.forId)
       THEN /\ feedback' = feedback \cup {NewFeedbackRow(f)}
            /\ ret' = Return("upsert_feedback", f, FeedbackIdStr(NewFeedbackId))
       ELSE /\ ret' = Raise("upsert_feedback", f, "IntegrityError")
            /\ UNCHANGED feedback
    /\ UNCHANGED <<users, threads, steps, elements, now, sess, pages>>

(***************************************************************************)
(* a thread with its steps and elements                                    *)
(***************************************************************************)
ThreadSteps(thread_id) == {s \in steps : s.thread_id = thread_id}

ThreadElements(thread_id) == {e \in elements : e.thread_id = thread_id}

\* ThreadModel.steps, cascade="all, delete, delete-orphan": the steps
\* session.delete(thread) deletes with the thread
NoCascadedSteps(thread_id) == {}

CascadedSteps(thread_id) == ThreadSteps(thread_id)

\* ThreadModel.elements, cascade="all, delete, delete-orphan"
CascadedElements(thread_id) == ThreadElements(thread_id)

DeleteThread(thread_id) ==
    /\ \E one \in First(SelectThread(thread_id)) :
         IF one = {}
         THEN /\ ret' = Return("delete_thread", thread_id, FALSE)
              /\ UNCHANGED <<threads, steps, elements>>
         ELSE IF \E s \in CascadedSteps(thread_id) : StepFeedback(s.id) # {}
         THEN /\ ret' = Raise("delete_thread", thread_id, "IntegrityError")
              /\ UNCHANGED <<threads, steps, elements>>
         ELSE /\ threads' = threads \ one
              /\ steps' = steps \ CascadedSteps(thread_id)
              /\ elements' = elements \ CascadedElements(thread_id)
              /\ ret' = Return("delete_thread", thread_id, TRUE)
    /\ UNCHANGED <<users, feedback, now, sess, pages>>

UserDictOf(u) ==
    [id |-> u.id, metadata |-> u.metadata_,
     identifier |-> u.identifier, createdAt |-> date_serialize(u.createdAt)]

\* the steps of get_thread's result carry parentId, those of list_threads do not
ThreadStepDictOf(step) ==
    [id |-> step.id, metadata |-> step.metadata_,
     createdAt |-> date_serialize(step.created_at),
     name |-> step.name, threadId |-> step.thread_id,
     parentId |-> step.parent_id, type |-> step.type,
     input |-> step.input, output |-> step.output,
     start |-> date_serialize(step.start_time),
     end |-> date_serialize(step.end_time)]

\* the steps get_thread selects for the thread
AllSteps(thread_id) == steps

StepsOfThread(thread_id) == {s \in steps : s.thread_id = thread_id}

ThreadDictOf(t, user, stepDicts) ==
    [steps |-> stepDicts,
     elements |-> {ElementDictOf(e) : e \in {x \in elements : x.thread_id = t.id}},
     id |-> t.id, metadata |-> t.metadata_,
     createdAt |-> date_serialize(t.createdAt), user |-> user,
     name |-> t.name, tags |-> t.tags]

GetThread(thread_id) ==
    /\ \E one \in First(SelectThread(thread_id)) :
         IF one = {}
         THEN ret' = ReturnNone("get_thread", thread_id)
         ELSE \E user \in First({u \in users : u.id = TheRow(one).user_id}) :
                ret' = Return("get_thread", thread_id,
                              ThreadDictOf(TheRow(one),
                                  IF user = {} THEN <<>> ELSE <<UserDictOf(TheRow(user))>>,
                                  {ThreadStepDictOf(s) : s \in StepsOfThread(thread_id)}))
    /\ UNCHANGED <<tables, now, sess, pages>>

\* select(PersistedUserModel.identifier).join(ThreadModel)
GetThreadAuthor(thread_id) ==
    /\ \E one \in First({u \in users :
                           \E t \in threads : t.id = thread_id /\ t.user_id = u.id}) :
         ret' = Return("get_thread_author", thread_id,
                       IF one = {} THEN "" ELSE TheRow(one).identifier)
    /\ UNCHANGED <<tables, now, sess, pages>>

(***************************************************************************)
(* list_threads                                                            *)
(***************************************************************************)
\* the spelling of the texts the model searches in
Letters(text) ==
    CASE text = "Ab" -> <<"A", "b">>
      [] text = "ab" -> <<"a", "b">>
      [] OTHER -> <<text>>

Lower(ch) == CASE ch = "A" -> "a" [] ch = "B" -> "b" [] OTHER -> ch

LowerAll(word) == [i \in 1..Len(word) |-> Lower(word[i])]

Contains(hay, needle) ==
    \E i \in 0..(Len(hay) - Len(needle)) : SubSeq(hay, i + 1, i + Len(needle)) = needle

\* ThreadModel.name.ilike(f'%{search}%'); a NULL name matches nothing
ILike(name, search) ==
    name # NoneText /\ Contains(LowerAll(Letters(name)), LowerAll(Letters(search)))

\* .order_by(ThreadModel.createdAt.desc()): every order the store may give
RECURSIVE OrderByCreatedAtDesc(_)
OrderByCreatedAtDesc(rows) ==
    IF rows = {} THEN {<<>>}
    ELSE UNION {{<<t>> \o rest : rest \in OrderByCreatedAtDesc(rows \ {t})} :
                  t \in {x \in rows : \A y \in rows : y.createdAt <= x.createdAt}}

\* the rows of select(ThreadModel).join(PersistedUserModel) with the filters
\* and the cursor applied
ListedRows(pagination, filters) ==
    {t \in threads :
        /\ \E u \in users : u.id = t.user_id
        /\ filters.userId # None => t.user_id = filters.userId
        /\ filters.search # NoneText => ILike(t.name, filters.search)
        /\ pagination.cursor # None => t.id > pagination.cursor}

\* .limit(pagination.first)
Limit(rows, first) == SubSeq(rows, 1, IF Len(rows) < first THEN Len(rows) ELSE first)

ListedThreadDictOf(t) ==
    ThreadDictOf(t, <<UserDictOf(CHOOSE u \in users : u.id = t.user_id)>>,
                 {StepDictOf(s) : s \in {x \in steps : x.thread_id = t.id}})

PaginatedResponse(page, first) ==
    [data |-> [i \in 1..Len(page) |-> ListedThreadDictOf(page[i])],
     pageInfo |-> [hasNextPage |-> Len(page) = first,
                   startCursor |-> IF page # <<>> THEN page[1].id ELSE None,
                   endCursor |-> IF page # <<>> THEN page[Len(page)].id ELSE None]]

\* filters.feedback: query.join(FeedbackModel) finds no foreign key between
\* feedback and threads or users, and raises
ListThreadsReturn(pagination, filters) ==
    IF filters.feedback # <<>>
    THEN {Raise("list_threads", <<pagination, filters>>, "InvalidRequestError")}
    ELSE {Return("list_threads", <<pagination, filters>>,
                 PaginatedResponse(Limit(ordered, pagination.first), pagination.first)) :
            ordered \in OrderByCreatedAtDesc(ListedRows(pagination, filters))}

ListThreads(pagination, filters) ==
    /\ ret' \in ListThreadsReturn(pagination, filters)
    /\ UNCHANGED <<tables, now, sess, pages>>

(***************************************************************************)
(* The store after initialize_database, and the calls of the host.         *)
(***************************************************************************)
Idle == [one |-> {}, user |-> [metadata |-> NoneText, identifier |-> ""], pc |-> "idle"]

NoPages == [cursor |-> None, first |-> 0, seen |-> <<>>, done |-> FALSE]

Init ==
    /\ users = {}
    /\ threads = {}
    /\ steps = {}
    /\ elements = {}
    /\ feedback = {}
    /\ now = 1
    /\ ret = ReturnNone("initialize_database", <<>>)
    /\ sess = [p \in Procs |-> Idle]
    /\ pages = NoPages

\* the clock of datetime.now(timezone.utc) moves on
Tick ==
    /\ now < MaxClock
    /\ now' = now + 1
    /\ UNCHANGED <<tables, ret, sess, pages>>

StepDict(id, threadId, name, output, createdAt, start, end) ==
    [id |-> id, metadata |-> NoneText, createdAt |-> createdAt, name |-> name,
     threadId |-> threadId, parentId |-> None, type |-> "tool", input |-> NoneText,
     output |-> output, start |-> start, end |-> end]

ElementDict(id, threadId, forId) ==
    [id |-> id, name |-> "e", threadId |-> threadId, type |-> "file",
     forId |-> forId, chainlitKey |-> NoneText, url |-> NoneText, objectKey |-> NoneText,
     display |-> "inline", size |-> NoneText, language |-> NoneText, mime |-> NoneText,
     page |-> None]

FeedbackIn(id, forId, value, comment) ==
    [id |-> id, forId |-> forId, value |-> value, comment |-> comment]

Admin == [metadata |-> "m1", identifier |-> "admin"]

Next ==
    \/ \E t \in ThreadIds : UpdateThread(t, "a", None, NoneText, NoneText)
    \/ \E id \in StepIds, t \in ThreadIds :
         CreateStep(StepDict(id, t, "a", NoneText, NoneIso, NoneIso, NoneIso))
    \/ \E id \in StepIds, t \in ThreadIds :
         UpdateStep(StepDict(id, t, "b", "out", NoneIso, NoneIso, NoneIso))
    \/ \E id \in StepIds : DeleteStep(id)
    \/ \E id \in ElementIds, t \in ThreadIds : CreateElement(ElementDict(id, t, None))
    \/ \E id \in ElementIds : DeleteElement(id)
    \/ \E t \in ThreadIds : DeleteThread(t)

Spec == Init /\ [][Next]_vars

(***************************************************************************)
(* FeedbackSpec: threads, steps and the feedback of the steps.             *)
(***************************************************************************)
\* the ids upsert_feedback has returned, as the host passes them back
FeedbackIds == {FeedbackIdStr(i) : i \in 1..MaxFeedback}

FeedbackNext ==
    \/ \E t \in ThreadIds : UpdateThread(t, "a", None, NoneText, NoneText)
    \/ \E id \in StepIds, t \in ThreadIds :
         CreateStep(StepDict(id, t, "a", NoneText, NoneIso, NoneIso, NoneIso))
    \/ \E id \in StepIds : DeleteStep(id)
    \/ \E id \in {NoneText} \cup FeedbackIds, s \in StepIds,
          value \in {-1, 1}, comment \in {NoneText, "c"} :
         /\ id = NoneText => Cardinality(feedback) < MaxFeedback
         /\ UpsertFeedback(FeedbackIn(id, s, value, comment))
    \/ \E t \in ThreadIds : DeleteThread(t)

FeedbackSpec == Init /\ [][FeedbackNext]_vars

(***************************************************************************)
(* HydrateSpec: users, threads with and without an owner, their steps and  *)
(* elements, and get_thread.                                               *)
(***************************************************************************)
HydrateNext ==
    \/ CreateUser(Admin)
    \/ \E t \in ThreadIds, user_id \in {None, 1} :
         UpdateThread(t, "a", user_id, NoneText, NoneText)
    \/ \E id \in StepIds, t \in ThreadIds :
         CreateStep(StepDict(id, t, "a", NoneText, NoneIso, NoneIso, NoneIso))
    \/ \E id \in StepIds : DeleteStep(id)
    \/ \E id \in ElementIds, t \in ThreadIds : CreateElement(ElementDict(id, t, None))
    \/ \E id \in ElementIds : DeleteElement(id)
    \/ \E t \in ThreadIds : DeleteThread(t)
    \/ \E t \in ThreadIds : GetThread(t)

HydrateSpec == Init /\ [][HydrateNext]_vars

(***************************************************************************)
(* StepSpec: one thread and one step, with the timestamps the host may     *)
(* pass to create_step and update_step.                                    *)
(***************************************************************************)
IsoStrings == {[wall |-> w, off |-> o] : w \in Instants, o \in {"Z", "+00:00"}}

StepNext ==
    \/ Tick
    \/ UpdateThread(1, "a", None, NoneText, NoneText)
    \/ \E given \in {NoneIso, [wall |-> 1, off |-> "Z"]} :
         CreateStep(StepDict(1, 1, "a", NoneText, given, given, NoneIso))
    \/ \E isoCreated, isoStart, isoEnd \in IsoStrings \cup {NoneIso} :
         UpdateStep(StepDict(1, 1, "b", "out", isoCreated, isoStart, isoEnd))
    \/ DeleteStep(1)
    \/ GetThread(1)

StepSpec == Init /\ [][StepNext]_vars

(***************************************************************************)
(* ThreadSpec: one thread, with every combination of the optional          *)
(* arguments of update_thread, a step and an element of the thread.        *)
(***************************************************************************)
ThreadNext ==
    \/ Tick
    \/ CreateUser(Admin)
    \/ \E name \in {NoneText, "a", "b"}, user_id \in {None, 1, 2},
          metadata \in {NoneText, "m1"}, tags \in {NoneText, "[]"} :
         UpdateThread(1, name, user_id, metadata, tags)
    \/ CreateStep(StepDict(1, 1, "a", NoneText, NoneIso, NoneIso, NoneIso))
    \/ CreateElement(ElementDict(1, 1, None))
    \/ DeleteThread(1)

ThreadSpec == Init /\ [][ThreadNext]_vars

(***************************************************************************)
(* UserSpec: create_user and get_user, one call after the other.           *)
(***************************************************************************)
Identifiers == {"admin", "bob"}

UserNext ==
    \/ Tick
    \/ \E identifier \in Identifiers, metadata \in {"m1", "m2"} :
         CreateUser([metadata |-> metadata, identifier |-> identifier])
    \/ \E identifier \in Identifiers, no_create \in BOOLEAN :
         GetUser(identifier, no_create)

UserSpec == Init /\ [][UserNext]_vars

(***************************************************************************)
(* ConcSpec: create_user and get_user called concurrently.  A call is a    *)
(* session: its select, then its insert or update and its commit; the      *)
(* calls of other sessions may come between the two.                       *)
(***************************************************************************)
InCall(p, at, user, one) ==
    [sess EXCEPT ![p] = [one |-> one, user |-> user, pc |-> at]]

CreateUserSelect(p, user) ==
    /\ sess[p].pc = "idle"
    /\ \E one \in First(SelectUser(user.identifier)) :
         sess' = InCall(p, "create_user", user, one)
    /\ UNCHANGED <<tables, now, ret, pages>>

CreateUserWrite(p) ==
    /\ sess[p].pc = "create_user"
    /\ CreateUserCommit(sess[p].user, sess[p].one)
    /\ sess' = [sess EXCEPT ![p] = Idle]
    /\ UNCHANGED <<threads, steps, elements, feedback, now, pages>>

GetUserSelect(p, identifier, no_create) ==
    LET args == [identifier |-> identifier, no_create |-> no_create] IN
    /\ sess[p].pc = "idle"
    /\ \E one \in First(SelectUser(identifier)) :
         IF one # {}
         THEN /\ ret' = Return("get_user", args,
                               PersistedUser(TheRow(one),
                                   IF TheRow(one).metadata_ = NoneText THEN "{}"
                                   ELSE TheRow(one).metadata_))
              /\ UNCHANGED sess
         ELSE IF ~no_create
         THEN /\ sess' = InCall(p, "get_user", [metadata |-> "{}", identifier |-> identifier], {})
              /\ UNCHANGED ret
         ELSE /\ ret' = ReturnNone("get_user", args)
              /\ UNCHANGED sess
    /\ UNCHANGED <<tables, now, pages>>

\* get_user's call of create_user: the select of create_user
GetUserCreateSelect(p) ==
    /\ sess[p].pc = "get_user"
    /\ \E one \in First(SelectUser(sess[p].user.identifier)) :
         sess' = InCall(p, "get_user:create_user", sess[p].user, one)
    /\ UNCHANGED <<tables, now, ret, pages>>

\* create_user's commit, and get_user's return of the un-awaited coroutine
GetUserCreateWrite(p) ==
    /\ sess[p].pc = "get_user:create_user"
    /\ users' = CreateUserRows(sess[p].user, sess[p].one)
    /\ ret' = Return("get_user",
                     [identifier |-> sess[p].user.identifier, no_create |-> FALSE],
                     Coroutine(sess[p].user.identifier))
    /\ sess' = [sess EXCEPT ![p] = Idle]
    /\ UNCHANGED <<threads, steps, elements, feedback, now, pages>>

ConcNext ==
    \/ \E p \in Procs, metadata \in {"m1", "m2"} :
         CreateUserSelect(p, [metadata |-> metadata, identifier |-> "admin"])
    \/ \E p \in Procs : CreateUserWrite(p)
    \/ \E p \in Procs, no_create \in BOOLEAN : GetUserSelect(p, "admin", no_create)
    \/ \E p \in Procs : GetUserCreateSelect(p)
    \/ \E p \in Procs : GetUserCreateWrite(p)

ConcSpec == Init /\ [][ConcNext]_vars

(***************************************************************************)
(* PageSpec: a store of threads created in the order of their ids, all     *)
(* owned by one user, and a host that pages through them with the          *)
(* endCursor of each page as the cursor of the next.                       *)
(***************************************************************************)
NoFilters == [feedback |-> <<>>, search |-> NoneText, userId |-> None]

PageInit ==
    /\ \E n \in 0..MaxListed :
         /\ now = n + 1
         /\ threads = {[NewThreadRow(id, "a") EXCEPT !.createdAt = id, !.user_id = 1] :
                         id \in 1..n}
    /\ users = {[id |-> 1, identifier |-> "admin", createdAt |-> 1, metadata_ |-> NoneText]}
    /\ steps = {}
    /\ elements = {}
    /\ feedback = {}
    /\ ret = ReturnNone("initialize_database", <<>>)
    /\ sess = [p \in Procs |-> Idle]
    /\ \E first \in 1..MaxFirst : pages = [NoPages EXCEPT !.first = first]

ListNextPage ==
    /\ ~pages.done
    /\ \E r \in ListThreadsReturn([cursor |-> pages.cursor, first |-> pages.first], NoFilters) :
         /\ ret' = r
         /\ pages' = [pages EXCEPT
                !.seen = Append(@, [i \in 1..Len(r.val[1].data) |-> r.val[1].data[i].id]),
                !.cursor = r.val[1].pageInfo.endCursor,
                !.done = ~r.val[1].pageInfo.hasNextPage]
    /\ UNCHANGED <<tables, now, sess>>

PageNext == ListNextPage

PageSpec == PageInit /\ [][PageNext]_vars

(***************************************************************************)
(* ListSpec: threads with and without an owner, their steps and the        *)
(* feedback of the steps, and list_threads with and without the feedback   *)
(* filter, on a first page large enough for every thread.                  *)
(***************************************************************************)
ListFilters == {[NoFilters EXCEPT !.feedback = fb] : fb \in {<<>>, <<1>>}}

ListNext ==
    \/ CreateUser(Admin)
    \/ \E t \in ThreadIds, user_id \in {None, 1} :
         UpdateThread(t, "a", user_id, NoneText, NoneText)
    \/ \E id \in StepIds, t \in ThreadIds :
         CreateStep(StepDict(id, t, "a", NoneText, NoneIso, NoneIso, NoneIso))
    \/ \E s \in StepIds, value \in {-1, 1} :
         /\ Cardinality(feedback) < MaxFeedback
         /\ UpsertFeedback(FeedbackIn(NoneText, s, value, NoneText))
    \/ \E filters \in ListFilters :
         ListThreads([cursor |-> None, first |-> MaxThreads], filters)

ListSpec == Init /\ [][ListNext]_vars

(***************************************************************************)
(* C1  Cascade delete: when delete_thread(t) returns True, the thread t,   *)
(* every step and every element of t are gone, and every other row of the  *)
(* store is as it was.                                                     *)
(***************************************************************************)
C1_CascadeDelete ==
    [][\A t \in ThreadIds :
         (/\ SelectThread(t) # {}
          /\ ret'.op = "delete_thread" /\ ret'.args = t /\ ret'.val = <<TRUE>>)
         => /\ threads' = {x \in threads : x.id # t}
            /\ steps' = {s \in steps : s.thread_id # t}
            /\ elements' = {e \in elements : e.thread_id # t}
            /\ UNCHANGED <<users, feedback>>]_vars

\* delete_thread returned True and rows of another thread are still stored
C1_Witness ==
    /\ ret.op = "delete_thread" /\ ret.val = <<TRUE>>
    /\ \E s \in steps : s.thread_id # ret.args
    /\ \E e \in elements : e.thread_id # ret.args

(***************************************************************************)
(* C2  Referential invariant: every stored step and every stored element   *)
(* has the thread_id of a stored thread; create_step and create_element    *)
(* naming a thread that is not stored raise, and add no row.               *)
(***************************************************************************)
C2_ReferentialInvariant ==
    /\ \A s \in steps : \E t \in threads : t.id = s.thread_id
    /\ \A e \in elements : \E t \in threads : t.id = e.thread_id
    /\ (ret.op \in {"create_step", "create_element"} /\ SelectThread(ret.args.threadId) = {})
       => ret.err # ""

\* create_step was refused for a missing thread while another step is stored
C2_Witness ==
    /\ ret.op = "create_step" /\ ret.err = "IntegrityError"
    /\ SelectThread(ret.args.threadId) = {}
    /\ SelectStep(ret.args.id) = {}
    /\ steps # {} /\ elements # {}

(***************************************************************************)
(* C8  Missing-step update failure: update_step of an id no stored step    *)
(* has raises "Step with ID {id} not found" and changes no table.          *)
(***************************************************************************)
C8_MissingStepUpdate ==
    [][(ret'.op = "update_step" /\ SelectStep(ret'.args.id) = {})
       => /\ ret'.err = StepNotFound(ret'.args.id)
          /\ UNCHANGED tables]_vars

\* update_step raised the not-found error on a store that holds rows
C8_Witness ==
    /\ ret.op = "update_step" /\ ret.err = StepNotFound(ret.args.id)
    /\ steps # {} /\ threads # {}

(***************************************************************************)
(* C3  Feedback ownership: every stored feedback row's for_id is the id of *)
(* a stored step, and delete_step of a step with feedback, or              *)
(* delete_thread of a thread with such a step, returns True and removes    *)
(* the feedback together with the step.                                    *)
(***************************************************************************)
C3_FeedbackOwnership ==
    [][/\ \A f \in feedback' : \E s \in steps' : s.id = f.for_id
       /\ \A s \in steps :
            (/\ StepFeedback(s.id) # {}
             /\ \/ ret'.op = "delete_step" /\ ret'.args = s.id
                \/ ret'.op = "delete_thread" /\ ret'.args = s.thread_id)
            => /\ ret'.val = <<TRUE>>
               /\ SelectStep(s.id)' = {}
               /\ StepFeedback(s.id)' = {}]_vars

(***************************************************************************)
(* C7  get_thread hydration: get_thread(t) returns None iff no thread t is *)
(* stored; otherwise its steps are exactly the stored steps whose          *)
(* thread_id is t, its elements exactly the stored elements whose          *)
(* thread_id is t, and its user the stored user whose id is the thread's   *)
(* user_id (None when the thread has no user_id).                          *)
(***************************************************************************)
C7_GetThreadHydration ==
    ret.op = "get_thread" =>
      /\ ret.err = ""
      /\ ret.val = <<>> <=> ~ \E t \in threads : t.id = ret.args
      /\ ret.val # <<>> =>
           LET dict == ret.val[1]
               thread == CHOOSE t \in threads : t.id = ret.args IN
           /\ dict.id = ret.args
           /\ {d.id : d \in dict.steps} = {s.id : s \in {x \in steps : x.thread_id = ret.args}}
           /\ \A d \in dict.steps : \E s \in steps :
                /\ s.id = d.id /\ d.threadId = ret.args
                /\ d.name = s.name /\ d.output = s.output
           /\ Cardinality(dict.steps) = Cardinality({s \in steps : s.thread_id = ret.args})
           /\ {d.id : d \in dict.elements} = {e.id : e \in {x \in elements : x.thread_id = ret.args}}
           /\ \A d \in dict.elements : d.threadId = ret.args
           /\ Cardinality(dict.elements) =
                Cardinality({e \in elements : e.thread_id = ret.args})
           /\ thread.user_id = None => dict.user = <<>>
           /\ thread.user_id # None =>
                /\ dict.user # <<>>
                /\ \E u \in users :
                     /\ u.id = thread.user_id
                     /\ dict.user[1].id = u.id
                     /\ dict.user[1].identifier = u.identifier
                     /\ dict.user[1].metadata = u.metadata_

\* get_thread returned a thread with an owner, a step and an element while
\* another thread has a step of its own
C7_Witness ==
    /\ ret.op = "get_thread" /\ ret.val # <<>>
    /\ ret.val[1].user # <<>>
    /\ ret.val[1].steps # {} /\ ret.val[1].elements # {}
    /\ \E s \in steps : s.thread_id # ret.args

(***************************************************************************)
(* C4  create_user upsert: create_user for an identifier that has a row    *)
(* leaves exactly one row with that identifier, with the id and createdAt  *)
(* the row had and the metadata of this call, and returns that row.  (A    *)
(* step that leaves the clock alone and ends with create_user as the last  *)
(* call is a call of create_user.)                                         *)
(***************************************************************************)
C4_CreateUserUpsert ==
    [][(ret'.op = "create_user" /\ now' = now) =>
         LET before == SelectUser(ret'.args.identifier)
             after == {u \in users' : u.identifier = ret'.args.identifier} IN
         /\ Cardinality(after) = 1
         /\ before # {} =>
              \E old \in before, new \in after :
                /\ new.id = old.id
                /\ new.createdAt = old.createdAt
                /\ new.metadata_ = ret'.args.metadata
                /\ ret'.val # <<>>
                /\ ret'.val[1].id = new.id
                /\ ret'.val[1].identifier = new.identifier
                /\ ret'.val[1].createdAt.wall = new.createdAt
                /\ ret'.val[1].metadata = new.metadata_]_vars

\* a second create_user, at a later time and with other metadata, returned
\* the row the first call inserted
C4_Witness ==
    /\ ret.op = "create_user" /\ ret.args.metadata = "m2"
    /\ \E u \in users :
         /\ u.identifier = ret.args.identifier
         /\ u.createdAt < now
         /\ u.metadata_ = "m2"
         /\ ret.val[1].id = u.id
    /\ Cardinality(users) = 2

(***************************************************************************)
(* C5  Identifier uniqueness under concurrency: in every state, whatever   *)
(* the interleaving of concurrent create_user and get_user calls, at most  *)
(* one users row exists per identifier.                                    *)
(***************************************************************************)
C5_UniqueIdentifier ==
    \A u1, u2 \in users : u1.identifier = u2.identifier => u1 = u2

(***************************************************************************)
(* C6  Pagination traversal: paging through the threads with the previous  *)
(* page's endCursor returns every thread exactly once, every page but the  *)
(* last holds `first` threads, and the last page has hasNextPage = false.  *)
(***************************************************************************)
Occurrences(id) ==
    Cardinality({<<i, j>> \in (1..Len(pages.seen)) \X (1..MaxFirst + 1) :
                   j <= Len(pages.seen[i]) /\ pages.seen[i][j] = id})

C6_PaginationTraversal ==
    pages.done =>
      /\ \A t \in threads : Occurrences(t.id) = 1
      /\ \A i \in 1..(Len(pages.seen) - 1) : Len(pages.seen[i]) = pages.first
      /\ ~ret.val[1].pageInfo.hasNextPage

(***************************************************************************)
(* C9  update_step timestamp preservation: update_step overwrites          *)
(* created_at, start_time and end_time exactly where the input carries the *)
(* timestamp, with the instant the input denotes, and returns the three    *)
(* instants of the row; get_thread returns the same instants.              *)
(***************************************************************************)
\* the instant an ISO-8601 string with the suffix Z or +00:00 denotes
InstantOf(iso) == IF iso.off = "None" THEN NoInstant ELSE iso.wall

C9_Overwritten(given, old, new, returned) ==
    /\ new = IF given = NoneIso THEN old ELSE InstantOf(given)
    /\ InstantOf(returned) = new

C9_TimestampPreservation ==
    [][/\ (ret'.op = "update_step" /\ SelectStep(ret'.args.id) # {}) =>
            \E old \in SelectStep(ret'.args.id), new \in {x \in steps' : x.id = ret'.args.id} :
              /\ ret'.val # <<>>
              /\ C9_Overwritten(ret'.args.createdAt, old.created_at, new.created_at,
                                ret'.val[1].createdAt)
              /\ C9_Overwritten(ret'.args.start, old.start_time, new.start_time,
                                ret'.val[1].start)
              /\ C9_Overwritten(ret'.args.end, old.end_time, new.end_time,
                                ret'.val[1].end)
       /\ (ret'.op = "get_thread" /\ ret'.val # <<>>) =>
            \A d \in ret'.val[1].steps : \E s \in steps' :
              /\ s.id = d.id
              /\ InstantOf(d.createdAt) = s.created_at
              /\ InstantOf(d.start) = s.start_time
              /\ InstantOf(d.end) = s.end_time]_vars

\* a step created at instant 1 without timestamps was updated with only
\* `end`, given with the suffix Z, and keeps its created_at and start_time
C9_Witness ==
    /\ ret.op = "update_step" /\ ret.val # <<>>
    /\ ret.args.createdAt = NoneIso /\ ret.args.start = NoneIso
    /\ ret.args.end = [wall |-> 2, off |-> "Z"]
    /\ \E s \in steps :
         /\ s.id = ret.args.id
         /\ s.created_at = 1 /\ s.start_time = 1 /\ s.end_time = 2
    /\ ret.val[1].end = [wall |-> 2, off |-> "+00:00"]
    /\ ret.val[1].createdAt.wall = 1

(***************************************************************************)
(* C10  update_thread upsert and frame: update_thread(t, ...) leaves       *)
(* exactly one thread t; on a stored thread it changes exactly the fields  *)
(* among name, user_id, metadata and tags that were supplied, and leaves   *)
(* the omitted ones, createdAt, the steps and the elements as they were.   *)
(***************************************************************************)
C10_Upserted(args) ==
    /\ Cardinality({t \in threads' : t.id = args.thread_id}) = 1
    /\ \A old \in SelectThread(args.thread_id) :
       \E new \in {t \in threads' : t.id = args.thread_id} :
         /\ new.name = IF args.name # NoneText THEN args.name ELSE old.name
         /\ new.user_id = IF args.user_id # None THEN args.user_id ELSE old.user_id
         /\ new.metadata_ = IF args.metadata # NoneText THEN args.metadata ELSE old.metadata_
         /\ new.tags = IF args.tags # NoneText THEN args.tags ELSE old.tags
         /\ new.createdAt = old.createdAt
    /\ \A new \in {t \in threads' : t.id = args.thread_id} :
         /\ args.name # NoneText => new.name = args.name
         /\ args.user_id # None => new.user_id = args.user_id
         /\ args.metadata # NoneText => new.metadata_ = args.metadata
         /\ args.tags # NoneText => new.tags = args.tags
    /\ UNCHANGED <<steps, elements>>

\* the claim as stated: whatever the arguments
C10_UpdateThreadUpsert ==
    [][ret'.op = "update_thread" => C10_Upserted(ret'.args)]_vars

\* the claim for a user_id that is omitted or the id of a stored user; for
\* any other user_id update_thread raises and changes no table
C10_UpdateThreadUpsertKnownUser ==
    [][ret'.op = "update_thread" =>
         IF ret'.args.user_id = None \/ \E u \in users : u.id = ret'.args.user_id
         THEN ret'.err = "" /\ C10_Upserted(ret'.args)
         ELSE ret'.err = "IntegrityError" /\ UNCHANGED tables]_vars

\* update_thread with only tags supplied, on a thread created earlier that
\* has a name, an owner, metadata, a step and an element
C10_Witness ==
    /\ ret.op = "update_thread" /\ ret.err = ""
    /\ ret.args.name = NoneText /\ ret.args.user_id = None
    /\ ret.args.metadata = NoneText /\ ret.args.tags = "[]"
    /\ \E t \in threads :
         /\ t.id = ret.args.thread_id
         /\ t.name = "b" /\ t.user_id = 1 /\ t.metadata_ = "m1" /\ t.tags = "[]"
         /\ t.createdAt < now
    /\ steps # {} /\ elements # {}

(***************************************************************************)
(* C11: get_user on an identifier with no row and creation enabled creates *)
(* exactly one row for it and returns that persisted User (its id and its  *)
(* identifier); with creation disabled it returns None and creates         *)
(* nothing; on a stored identifier either form returns the stored User and *)
(* writes nothing.                                                         *)
(***************************************************************************)
C11_IsUserOf(val, rows) ==
    /\ Len(val) = 1
    /\ DOMAIN val[1] = {"id", "metadata", "identifier", "createdAt"}
    /\ \E r \in rows : val[1].id = r.id /\ val[1].identifier = r.identifier

C11_GetUserCreateIfMissing ==
    [][(ret'.op = "get_user" /\ now' = now) =>
        LET stored == {u \in users : u.identifier = ret'.args.identifier}
            created == users' \ users IN
        IF stored # {}
        THEN users' = users /\ C11_IsUserOf(ret'.val, stored)
        ELSE IF ret'.args.no_create
        THEN users' = users /\ ret'.val = <<>>
        ELSE /\ Cardinality(created) = 1
             /\ users \subseteq users'
             /\ \A u \in created : u.identifier = ret'.args.identifier
             /\ C11_IsUserOf(ret'.val, created)]_vars

(***************************************************************************)
(* C12: upsert_feedback without an id adds exactly one feedback row and    *)
(* returns an id that no row stored before has; with the id of a stored    *)
(* row it updates that row's comment and value, returns the same id and    *)
(* leaves the number of rows unchanged; with an id matching no row it      *)
(* changes nothing and returns the id without error.                       *)
(* C12_FeedbackUpsert states this for every input.                         *)
(* C12_FeedbackUpsertStoredStep states it for an insert whose forId is the *)
(* id of a stored step, and states that an insert whose forId names no     *)
(* stored step raises and adds nothing.                                    *)
(***************************************************************************)
C12_Inserted(f) ==
    /\ ret'.err = ""
    /\ feedback \subseteq feedback'
    /\ Cardinality(feedback') = Cardinality(feedback) + 1
    /\ \A r \in feedback : ~MatchesFeedbackId(r, ret'.val[1])
    /\ \A r \in feedback' \ feedback :
         /\ MatchesFeedbackId(r, ret'.val[1])
         /\ r.for_id = f.forId /\ r.comment = f.comment /\ r.value = Str(f.value)

C12_Updated(f) ==
    IF \E r \in feedback : MatchesFeedbackId(r, f.id)
    THEN /\ ret'.err = "" /\ ret'.val = <<f.id>>
         /\ Cardinality(feedback') = Cardinality(feedback)
         /\ {r.id : r \in feedback'} = {r.id : r \in feedback}
         /\ \A r \in feedback' :
              IF MatchesFeedbackId(r, f.id)
              THEN r.comment = f.comment /\ r.value = Str(f.value)
              ELSE r \in feedback
    ELSE /\ ret'.err = "" /\ ret'.val = <<f.id>>
         /\ feedback' = feedback

C13_GivenOrNow(given, stored, returned) ==
    /\ stored = IF given = NoneIso THEN now ELSE InstantOf(given)
    /\ InstantOf(returned) = stored

C13_CreateStepTimestamps ==
    [][(ret'.op = "create_step" /\ ret'.err = "" /\ now' = now) =>
        \A row \in {s \in steps' : s.id = ret'.args.id} :
          /\ C13_GivenOrNow(ret'.args.createdAt, row.created_at, ret'.val[1].createdAt)
          /\ C13_GivenOrNow(ret'.args.start, row.start_time, ret'.val[1].start)
          /\ row.end_time = NoInstant
          /\ ret'.val[1].end = NoneIso]_vars

(***************************************************************************)
(* C14: list_threads with filters.feedback = v returns without error, and  *)
(* the threads it returns (no other filter, no cursor, a page that holds   *)
(* every thread) are exactly the threads with a step that has a feedback   *)
(* row of value v.                                                         *)
(***************************************************************************)
C14_WithFeedback(v) ==
    {t.id : t \in {x \in threads :
        \E s \in steps : /\ s.thread_id = x.id
                         /\ \E f \in feedback : f.for_id = s.id /\ f.value = Str(v)}}

C14_Listed == {ret.val[1].data[i].id : i \in 1..Len(ret.val[1].data)}

C14_FeedbackFilter ==
    (ret.op = "list_threads" /\ ret.args[2].feedback # <<>>) =>
        /\ ret.err = ""
        /\ C14_Listed = C14_WithFeedback(ret.args[2].feedback[1])

(***************************************************************************)
(* C15: list_threads with no filter and no cursor, on a page that holds    *)
(* every stored thread, returns every stored thread, the threads without   *)
(* an owner included.                                                      *)
(***************************************************************************)
C15_ListingComplete ==
    (/\ ret.op = "list_threads"
     /\ ret.args[2] = NoFilters
     /\ ret.args[1].cursor = None
     /\ ret.args[1].first >= Cardinality(threads)) =>
        /\ ret.err = ""
        /\ {ret.val[1].data[i].id : i \in 1..Len(ret.val[1].data)} = {t.id : t \in threads}

(***************************************************************************)
(* C16: create_user for an identifier with no row stores the metadata it   *)
(* is given in the new row and returns a record with that metadata, and a  *)
(* get_user of the identifier that follows a create_user returns a record  *)
(* with the metadata create_user was given.                                *)
(***************************************************************************)
C16_CreateUserRoundTrip ==
    [][/\ (/\ ret'.op = "create_user" /\ now' = now
           /\ ~ \E u \in users : u.identifier = ret'.args.identifier) =>
            /\ \A u \in users' \ users : u.metadata_ = ret'.args.metadata
            /\ ret'.val[1].metadata = ret'.args.metadata
       /\ (/\ ret.op = "create_user" /\ ret'.op = "get_user"
           /\ ret'.args.identifier = ret.args.identifier) =>
            ret'.val[1].metadata = ret.args.metadata]_vars

====
